---- MODULE Spec2Model ----
(***************************************************************************)
(* The import pipeline of photobot (src/src/main.rs, src/src/exif.rs,      *)
(* src/src/photohashdb.rs): discovery, checksum, metadata read, album      *)
(* inference, destination derivation, copy-or-skip, metadata write-back    *)
(* and the checksum index, over several process runs against one output    *)
(* directory, with I/O failures and external termination.                  *)
(***************************************************************************)
EXTENDS Integers, Sequences, FiniteSets, TLC

\* ------------------------------------------------------------------ bounds
\* Number of process runs (invocations of main) against the same output dir.
MaxRuns == 2
\* Number of I/O failures / external kills the environment injects in total.
MaxFaults == 1

\* ------------------------------------------------------------- Option<T>
\* Option::None is the empty tuple, Option::Some(v) the one-element tuple.
None == <<>>
Some(v) == <<v>>
IsSome(o) == o # <<>>
Unwrap(o) == o[1]

\* ------------------------------------------------------------ the inputs
\* A NaiveDateTime as exiftool reports it ("%Y:%m:%d %H:%M:%S", parsed).
DateA == [y |-> 2023, mo |-> 7, d |-> 4, h |-> 10, mi |-> 15, s |-> 30]
DateB == [y |-> 2021, mo |-> 12, d |-> 25, h |-> 8, mi |-> 5, s |-> 9]

\* File contents are byte strings; the embedded metadata is part of the bytes,
\* so the record exiftool reads is a function of the content.
ContentA == <<1, 1>>
ContentB == <<1, 2>>
ContentC == <<2>>
ContentD == <<3>>
Contents == {ContentA, ContentB, ContentC, ContentD}

\* struct Exif (the fields the pipeline reads or writes).
MkExif(dto, cd, album, make, model) ==
    [date_time_original |-> dto, create_date |-> cd, album |-> album,
     original_filename |-> None, make |-> make, model |-> model]

\* The record embedded in each content:
\*   A: original date, Canon EOS R5, no album
\*   B: other bytes, create date only, same instant and camera as A
\*   C: no timestamp at all
\*   D: an embedded album, a make without a model
ExifOf(c) ==
    CASE c = ContentA -> MkExif(Some(DateA), None, None, Some("Canon"), Some("EOS R5"))
      [] c = ContentB -> MkExif(None, Some(DateA), None, Some("Canon"), Some("EOS R5"))
      [] c = ContentC -> MkExif(None, None, None, Some("Canon"), Some("EOS R5"))
      [] OTHER        -> MkExif(Some(DateB), Some(DateA), Some("Trip"), Some("Nikon"), None)

\* A path: its directory components and the file name split at the last dot.
MkPath(dirs, stem, ext) == [dirs |-> dirs, stem |-> stem, ext |-> ext]

\* The directory given on the command line (args.paths) and the tree under it.
InputDir == <<"in">>
PathRoot == MkPath(<<"in">>, "a", "jpg")
PathSubA == MkPath(<<"in", "A">>, "b", "jpg")
PathSubB == MkPath(<<"in", "B">>, "c", "jpeg")
PathText == MkPath(<<"in", "B">>, "notes", "txt")
\* WalkDir's order of the tree.
Tree == <<PathRoot, PathSubA, PathText, PathSubB>>

\* args.output
OutputDir == "out"

\* -------------------------------------------------------- pure functions
\* Path::file_name
FileName(p) == p.stem \o "." \o p.ext

\* Path::ancestors().count(): the path, each of its parents, and "".
AncestorsCount(dirs) == Len(dirs) + 1

\* GLOB_MATCHER: "**/*.{jpg,jpeg}"
GlobMatch(p) == p.ext \in {"jpg", "jpeg"}

RECURSIVE FilterSeq(_, _)
FilterSeq(s, i) ==
    IF i > Len(s) THEN <<>>
    ELSE (IF GlobMatch(s[i]) THEN <<s[i]>> ELSE <<>>) \o FilterSeq(s, i + 1)

\* find_all_photos: the matching files of the tree, each with the input dir.
find_all_photos(input_dir) ==
    LET m == FilterSeq(Tree, 1)
    IN [i \in 1..Len(m) |-> [input_path |-> m[i], input_dir |-> input_dir]]

\* adler32 of a byte string.
RECURSIVE AdlerA(_, _)
AdlerA(bytes, n) ==
    IF n = 0 THEN 1 ELSE (AdlerA(bytes, n - 1) + bytes[n]) % 65521
RECURSIVE AdlerB(_, _)
AdlerB(bytes, n) ==
    IF n = 0 THEN 0 ELSE (AdlerB(bytes, n - 1) + AdlerA(bytes, n)) % 65521
adler32(bytes) == AdlerB(bytes, Len(bytes)) * 65536 + AdlerA(bytes, Len(bytes))

\* chrono formatting.
Pad2(n) == IF n < 10 THEN "0" \o ToString(n) ELSE ToString(n)
MonthAbbrev(m) ==
    <<"Jan", "Feb", "Mar", "Apr", "May", "Jun",
      "Jul", "Aug", "Sep", "Oct", "Nov", "Dec">>[m]
\* A variant that does not pad the month number.
FormatBucketNoPad(date) ==
    ToString(date.y) \o "-" \o ToString(date.mo) \o "-" \o MonthAbbrev(date.mo)
\* date.format("%Y-%m-%b")
FormatBucket(date) ==
    ToString(date.y) \o "-" \o Pad2(date.mo) \o "-" \o MonthAbbrev(date.mo)
\* date.format("%Y-%m-%d_%H-%M-%S")
FormatStamp(date) ==
    ToString(date.y) \o "-" \o Pad2(date.mo) \o "-" \o Pad2(date.d) \o "_"
        \o Pad2(date.h) \o "-" \o Pad2(date.mi) \o "-" \o Pad2(date.s)

\* A variant that names the camera by its make when the model is missing.
generate_camera_make_only(exif) ==
    IF IsSome(exif.make) /\ IsSome(exif.model)
    THEN Some(Unwrap(exif.make) \o " " \o Unwrap(exif.model))
    ELSE exif.make

\* generate_camera
generate_camera(exif) ==
    IF IsSome(exif.make) /\ IsSome(exif.model)
    THEN Some(Unwrap(exif.make) \o " " \o Unwrap(exif.model))
    ELSE None

\* A variant that falls back to a default date instead of reporting none.
ResolveDateOrDefault(exif) ==
    IF IsSome(exif.date_time_original) THEN exif.date_time_original
    ELSE IF IsSome(exif.create_date) THEN exif.create_date
    ELSE Some(DateB)

\* exif.date_time_original.or(exif.create_date)
ResolveDate(exif) ==
    IF IsSome(exif.date_time_original) THEN exif.date_time_original
    ELSE exif.create_date

\* The bucket and the camera directory of generate_filename.
BucketOf(exif) ==
    IF IsSome(exif.album) THEN <<"albums", Unwrap(exif.album)>>
    ELSE <<"timeline", FormatBucket(Unwrap(ResolveDate(exif)))>>
CameraDir(exif) ==
    IF IsSome(generate_camera(exif)) THEN Unwrap(generate_camera(exif))
    ELSE "unknown camera"

\* generate_filename: Err (None) without a timestamp, else Ok(prefix).
generate_filename(exif) ==
    IF ~IsSome(ResolveDate(exif)) THEN None
    ELSE Some(BucketOf(exif)[1] \o "/" \o BucketOf(exif)[2] \o "/" \o CameraDir(exif)
              \o "/" \o FormatStamp(Unwrap(ResolveDate(exif))))

\* ------------------------------------------------------------------ state
VARIABLES
    album_from_filename,  \* State.album_from_filename
    src,                  \* the input tree: path -> content
    fs,                   \* files under the output dir: path -> file
    dirs,                 \* directories created for the output
    dbDisk,               \* photohash.db on disk: checksum string -> path
    db,                   \* PHOTOHASH_DB, the PickleDb loaded in the process
    run,                  \* number of process runs started
    pc,                   \* the running process's next step, "idle" if none
    items,                \* the discovered PhotoPaths of the run
    idx,                  \* the item import_photos is at
    photo,                \* the locals of get_photo / the Photo of copy_photo
    results,              \* the Vec<Photo> import_photos collects
    faults,               \* failures and kills injected so far
    outcome,              \* how each item of the current (or last) run ended
    prev,                 \* how each item ended in the run before, in short
    ended,                \* the run: "running", "finished", "panicked", "killed"
    clean                 \* no failure was injected in the run

vars == <<album_from_filename, src, fs, dirs, dbDisk, db, run, pc, items, idx,
          photo, results, faults, outcome, prev, ended, clean>>

config == <<album_from_filename, src>>

TreeSet == {Tree[i] : i \in 1..Len(Tree)}

\* A map with no key.
EmptyMap == [x \in {} |-> None]

\* The locals of an item before the Photo is built.
NoPhoto ==
    [input_path |-> None, checksum |-> None, exif |-> None,
     output_filename |-> None, original_filename |-> None]

CurPath == items[idx].input_path
CurDir == items[idx].input_dir

\* Before the first run: any flag; the file in the scanned root holds content A
\* or D, the two files in sub-folders any content; nothing under the output
\* dir and no store.
Init ==
    /\ album_from_filename \in BOOLEAN
    /\ src \in [TreeSet -> Contents]
    /\ src[PathRoot] \in {ContentA, ContentD}
    /\ src[PathText] = ContentC
    /\ fs = EmptyMap
    /\ dirs = {}
    /\ dbDisk = EmptyMap
    /\ db = EmptyMap
    /\ run = 0
    /\ pc = "idle"
    /\ items = <<>>
    /\ idx = 0
    /\ photo = NoPhoto
    /\ results = <<>>
    /\ faults = 0
    /\ outcome = <<>>
    /\ prev = <<>>
    /\ ended = "finished"
    /\ clean = TRUE

\* ------------------------------------------------------- helper operators
\* f with key k set to v (insert or overwrite).
Put(f, k, v) == [x \in DOMAIN f \cup {k} |-> IF x = k THEN v ELSE f[x]]

\* load_db: the store on disk, or a new empty store when there is none.
load_db == dbDisk

\* The environment makes an I/O step succeed, or (within the budget) fail.
Env(ok) ==
    /\ ok \/ faults < MaxFaults
    /\ faults' = IF ok THEN faults ELSE faults + 1
    /\ clean' = (clean /\ ok)

\* A variant that keeps an item in the list once its copy succeeded.
EndItemOnceCopied(status, kept) ==
    /\ outcome' = [outcome EXCEPT ![idx] = status]
    /\ results' = IF kept \/ status \in {"FailedTag", "FailedIndex"}
                  THEN Append(results, photo) ELSE results
    /\ idx' = idx + 1
    /\ pc' = "hash"
    /\ photo' = NoPhoto
    /\ UNCHANGED <<items, run, prev, ended>>

\* filter_map in import_photos: the item's Result is Ok (kept) or Err
\* (printed and dropped); the iterator goes on to the next item.
EndItem(status, kept) ==
    /\ outcome' = [outcome EXCEPT ![idx] = status]
    /\ results' = IF kept THEN Append(results, photo) ELSE results
    /\ idx' = idx + 1
    /\ pc' = "hash"
    /\ photo' = NoPhoto
    /\ UNCHANGED <<items, run, prev, ended>>

\* The item goes on to its next step.
Step(next, ph) ==
    /\ pc' = next
    /\ photo' = ph
    /\ UNCHANGED <<items, idx, results, run, outcome, prev, ended>>

\* format!("{}/{}", state.output_dir, photo.output_filename)
OutputPath(ph) == OutputDir \o "/" \o Unwrap(ph.output_filename)

\* output_path.parent() and its ancestors, outermost first.
OutputDirs(ph) ==
    LET e == Unwrap(ph.exif)
        b1 == OutputDir \o "/" \o BucketOf(e)[1]
        b2 == b1 \o "/" \o BucketOf(e)[2]
    IN <<OutputDir, b1, b2, b2 \o "/" \o CameraDir(e)>>

\* A place in the file system: a file of the input tree, or a path under the
\* output dir.
InInput(path) == [under |-> "input", path |-> path]
InOutput(path) == [under |-> "output", path |-> path]

\* The file std::fs::copy writes: output_path.
CopyTarget(ph) == InOutput(OutputPath(ph))

\* A variant that hands the source file to exiftool.
TagTargetInput(ph) == InInput(Unwrap(ph.input_path))

\* The file write_exif hands to exiftool: the path copy_photo passes,
\* output_path.
TagTarget(ph) == InOutput(OutputPath(ph))

\* A variant that never finds the destination.
DestNeverExists(p) == FALSE

\* File::open(output_path) is Ok
DestExists(p) == p \in DOMAIN fs

\* How an item ended: Ok from copy_photo, or Err.
Succeeded == {"Done", "Skipped"}
\* The failures the environment causes (not the record's own missing date).
FailedByFault ==
    {"FailedHash", "FailedExif", "FailedMkdir", "FailedCopy", "FailedTag", "FailedIndex"}

\* What is kept of an item's outcome once the next run starts.
Short(status) ==
    IF status \in Succeeded THEN "ok"
    ELSE IF status \in FailedByFault THEN "failed"
    ELSE IF status \in {"Killed", "Panicked", "none"} THEN status
    ELSE "rejected"

\* ---------------------------------------------------------------- actions
\* main: load the store, build the State, discover, start import_photos.
StartRun ==
    /\ pc = "idle"
    /\ run < MaxRuns
    /\ run' = run + 1
    /\ db' = load_db
    /\ items' = find_all_photos(InputDir)
    /\ idx' = 1
    /\ pc' = "hash"
    /\ photo' = NoPhoto
    /\ results' = <<>>
    /\ outcome' = [i \in 1..Len(items') |-> "none"]
    /\ prev' = [i \in DOMAIN outcome |-> Short(outcome[i])]
    /\ ended' = "running"
    /\ clean' = TRUE
    /\ UNCHANGED <<config, fs, dirs, dbDisk, faults>>

\* get_photo: File::open and adler32 of the source file.
Hash ==
    /\ pc = "hash"
    /\ idx <= Len(items)
    /\ \E ok \in BOOLEAN :
        /\ Env(ok)
        /\ IF ok
           THEN Step("exif", [NoPhoto EXCEPT !.input_path = Some(CurPath),
                                             !.checksum = Some(adler32(src[CurPath]))])
           ELSE EndItem("FailedHash", FALSE)
    /\ UNCHANGED <<config, fs, dirs, dbDisk, db>>

\* get_exif: exiftool -json; Err, a record, or an empty list, on which
\* g.remove(0) panics and the process dies.
GetExif ==
    /\ pc = "exif"
    /\ \E r \in {"ok", "err", "empty"} :
        /\ Env(r = "ok")
        /\ CASE r = "ok" ->
                  Step("derive", [photo EXCEPT !.exif = Some(ExifOf(src[CurPath]))])
             [] r = "err" -> EndItem("FailedExif", FALSE)
             [] OTHER ->
                  /\ pc' = "idle"
                  /\ photo' = NoPhoto
                  /\ results' = <<>>
                  /\ outcome' = [outcome EXCEPT ![idx] = "Panicked"]
                  /\ ended' = "panicked"
                  /\ UNCHANGED <<items, idx, run, prev>>
    /\ UNCHANGED <<config, fs, dirs, dbDisk, db>>

\* A variant that also infers the album of a file directly in the root.
InferAlbumFromRoot(flag, path, input_dir) ==
    /\ flag
    /\ AncestorsCount(Append(path.dirs, FileName(path))) - 1 >= AncestorsCount(input_dir)

\* The album-from-folder condition of get_photo.
InferAlbum(flag, path, input_dir) ==
    /\ flag
    /\ AncestorsCount(Append(path.dirs, FileName(path))) - 1 > AncestorsCount(input_dir)

\* path.input_path.parent().and_then(|p| p.file_name())
ParentName(path) ==
    IF Len(path.dirs) = 0 THEN None ELSE Some(path.dirs[Len(path.dirs)])

\* The record get_photo derives the destination from and hands to copy_photo.
AmendedExif(flag, exif, path, input_dir) ==
    IF InferAlbum(flag, path, input_dir) THEN [exif EXCEPT !.album = ParentName(path)]
    ELSE exif

\* get_photo after the metadata read: extension, album inference,
\* generate_filename, and the Photo.
Derive ==
    /\ pc = "derive"
    /\ LET exif == AmendedExif(album_from_filename, Unwrap(photo.exif), CurPath, CurDir)
           prefix == generate_filename(exif)
       IN IF IsSome(prefix)
          THEN Step("check",
                    [photo EXCEPT !.exif = Some(exif),
                                  !.output_filename = Some(Unwrap(prefix) \o "." \o CurPath.ext),
                                  !.original_filename = Some(FileName(CurPath))])
          ELSE EndItem("FailedDerive", FALSE)
    /\ UNCHANGED <<config, fs, dirs, dbDisk, db, faults, clean>>

\* A variant of the destination check that records a skipped item in the
\* index.
CheckReindex ==
    /\ pc = "check"
    /\ IF DestExists(OutputPath(photo))
       THEN /\ EndItem("Skipped", TRUE)
            /\ db' = Put(db, ToString(Unwrap(photo.checksum)),
                         Unwrap(photo.output_filename))
            /\ dbDisk' = db'
       ELSE /\ Step("mkdir", photo)
            /\ UNCHANGED <<db, dbDisk>>
    /\ UNCHANGED <<config, fs, dirs, faults, clean>>

\* copy_photo: the destination-existence check.
Check ==
    /\ pc = "check"
    /\ IF DestExists(OutputPath(photo))
       THEN EndItem("Skipped", TRUE)
       ELSE Step("mkdir", photo)
    /\ UNCHANGED <<config, fs, dirs, dbDisk, db, faults, clean>>

\* copy_photo: create_dir_all of the destination's parent. A failure may
\* leave the outer directories created.
Mkdir ==
    /\ pc = "mkdir"
    /\ \E ok \in BOOLEAN :
        /\ Env(ok)
        /\ IF ok
           THEN /\ dirs' = dirs \cup {OutputDirs(photo)[i] : i \in 1..4}
                /\ Step("copy", photo)
           ELSE /\ \E k \in 0..3 : dirs' = dirs \cup {OutputDirs(photo)[i] : i \in 1..k}
                /\ EndItem("FailedMkdir", FALSE)
    /\ UNCHANGED <<config, fs, dbDisk, db>>

\* The file std::fs::copy leaves at the destination: the source's bytes, with
\* the metadata embedded in them.
CopyOf(c, whole) ==
    [content |-> c, whole |-> whole,
     album |-> ExifOf(c).album, original_filename |-> ExifOf(c).original_filename]

\* The file system after `file` is written at `target`. A file of the input
\* tree is its bytes, which a write replaces.
WriteFile(target, file) ==
    IF target.under = "output"
    THEN fs' = Put(fs, target.path, file) /\ src' = src
    ELSE src' = [src EXCEPT ![target.path] = Append(file.content, 0)] /\ fs' = fs

\* A variant that goes from the copy straight to the index record.
CopyThenIndex ==
    /\ pc = "copy"
    /\ \E ok \in BOOLEAN :
        /\ Env(ok)
        /\ IF ok
           THEN /\ WriteFile(CopyTarget(photo), CopyOf(src[CurPath], TRUE))
                /\ Step("index", photo)
           ELSE /\ \/ UNCHANGED <<fs, src>>
                   \/ WriteFile(CopyTarget(photo), CopyOf(src[CurPath], FALSE))
                /\ EndItem("FailedCopy", FALSE)
    /\ UNCHANGED <<album_from_filename, dirs, dbDisk, db>>

\* copy_photo: std::fs::copy. A failure may leave a truncated file.
Copy ==
    /\ pc = "copy"
    /\ \E ok \in BOOLEAN :
        /\ Env(ok)
        /\ IF ok
           THEN /\ WriteFile(CopyTarget(photo), CopyOf(src[CurPath], TRUE))
                /\ Step("tag", photo)
           ELSE /\ \/ UNCHANGED <<fs, src>>
                   \/ WriteFile(CopyTarget(photo), CopyOf(src[CurPath], FALSE))
                /\ EndItem("FailedCopy", FALSE)
    /\ UNCHANGED <<album_from_filename, dirs, dbDisk, db>>

\* The file at a place of the file system.
FileAt(target) ==
    IF target.under = "output" THEN fs[target.path]
    ELSE CopyOf(src[target.path], TRUE)

\* What exiftool -overwrite_original -OriginalFileName=.. -album=.. makes of
\* the destination file.
Tagged(file, ph) ==
    [file EXCEPT !.original_filename =
                     IF IsSome(ph.original_filename) THEN ph.original_filename ELSE @,
                 !.album =
                     IF IsSome(Unwrap(ph.exif).album) THEN Unwrap(ph.exif).album ELSE @]

\* A variant that removes the copy when write_exif fails.
WriteExifRollback ==
    /\ pc = "tag"
    /\ \E r \in {"ok", "err", "silent"} :
        /\ Env(r = "ok")
        /\ CASE r = "ok" ->
                  /\ WriteFile(TagTarget(photo),
                               Tagged(FileAt(TagTarget(photo)), photo))
                  /\ Step("index", photo)
             [] r = "silent" ->
                  /\ UNCHANGED <<fs, src>>
                  /\ Step("index", photo)
             [] OTHER ->
                  /\ fs' = [p \in DOMAIN fs \ {OutputPath(photo)} |-> fs[p]]
                  /\ src' = src
                  /\ EndItem("FailedTag", FALSE)
    /\ UNCHANGED <<album_from_filename, dirs, dbDisk, db>>

\* write_exif: Err when exiftool cannot be spawned; Ok once it ran, whether
\* it wrote the tags ("ok") or exited with an error ("silent": its exit
\* status is not looked at).
WriteExif ==
    /\ pc = "tag"
    /\ \E r \in {"ok", "err", "silent"} :
        /\ Env(r = "ok")
        /\ CASE r = "ok" ->
                  /\ WriteFile(TagTarget(photo),
                               Tagged(FileAt(TagTarget(photo)), photo))
                  /\ Step("index", photo)
             [] r = "silent" ->
                  /\ UNCHANGED <<fs, src>>
                  /\ Step("index", photo)
             [] OTHER ->
                  /\ UNCHANGED <<fs, src>>
                  /\ EndItem("FailedTag", FALSE)
    /\ UNCHANGED <<album_from_filename, dirs, dbDisk, db>>

\* A variant that records the full output path instead of the fragment.
DbSetFullPath(d, ph) == Put(d, ToString(Unwrap(ph.checksum)), OutputPath(ph))

\* db.set(checksum.to_string(), output_filename)
DbSet(d, ph) == Put(d, ToString(Unwrap(ph.checksum)), Unwrap(ph.output_filename))

\* write_photohash: PickleDb::set with AutoDump; the set is undone when the
\* dump fails.
WriteHash ==
    /\ pc = "index"
    /\ \E ok \in BOOLEAN :
        /\ Env(ok)
        /\ IF ok
           THEN /\ db' = DbSet(db, photo)
                /\ dbDisk' = db'
                /\ EndItem("Done", TRUE)
           ELSE /\ UNCHANGED <<db, dbDisk>>
                /\ EndItem("FailedIndex", FALSE)
    /\ UNCHANGED <<config, fs, dirs>>

\* import_photos returns and main exits.
Finish ==
    /\ pc = "hash"
    /\ idx > Len(items)
    /\ pc' = "idle"
    /\ ended' = "finished"
    /\ UNCHANGED <<config, fs, dirs, dbDisk, db, items, idx, photo, results, run,
                   faults, outcome, prev, clean>>

\* The process is terminated from outside. Killed inside std::fs::copy it may
\* leave a truncated file.
Kill ==
    /\ pc # "idle"
    /\ faults < MaxFaults
    /\ faults' = faults + 1
    /\ clean' = FALSE
    /\ pc' = "idle"
    /\ photo' = NoPhoto
    /\ results' = <<>>
    /\ ended' = "killed"
    /\ outcome' = IF idx <= Len(items) THEN [outcome EXCEPT ![idx] = "Killed"]
                  ELSE outcome
    /\ \/ UNCHANGED <<fs, src>>
       \/ /\ pc = "copy"
          /\ WriteFile(CopyTarget(photo), CopyOf(src[CurPath], FALSE))
    /\ UNCHANGED <<album_from_filename, dirs, dbDisk, db, items, idx, run, prev>>

Next ==
    \/ StartRun
    \/ Hash
    \/ GetExif
    \/ Derive
    \/ Check
    \/ Mkdir
    \/ Copy
    \/ WriteExif
    \/ WriteHash
    \/ Finish
    \/ Kill

Spec == Init /\ [][Next]_vars

\* ------------------------------------------------- what an item derives
\* The record, fragment and destination get_photo and copy_photo derive for
\* item i of the run, computed from the input tree.
ItemPath(i) == items[i].input_path
ItemExif(i) ==
    AmendedExif(album_from_filename, ExifOf(src[ItemPath(i)]), ItemPath(i),
                items[i].input_dir)
HasDest(i) == IsSome(ResolveDate(ItemExif(i)))
ItemFragment(i) == Unwrap(generate_filename(ItemExif(i))) \o "." \o ItemPath(i).ext
ItemDest(i) == OutputDir \o "/" \o ItemFragment(i)
ItemKey(i) == ToString(adler32(src[ItemPath(i)]))

Items == DOMAIN outcome
\* No other item of the run derives item i's destination.
OwnDest(i) ==
    \A j \in Items \ {i} : HasDest(j) => ItemDest(j) # ItemDest(i)

\* Item i is in the Done state: a whole copy of it at its destination, with
\* the metadata written back, and its checksum in the index on disk.
IsDone(i) ==
    /\ HasDest(i)
    /\ ItemDest(i) \in DOMAIN fs
    /\ fs[ItemDest(i)].content = src[ItemPath(i)]
    /\ fs[ItemDest(i)].whole
    /\ fs[ItemDest(i)].original_filename = Some(FileName(ItemPath(i)))
    /\ IsSome(ItemExif(i).album) => fs[ItemDest(i)].album = ItemExif(i).album
    /\ ItemKey(i) \in DOMAIN dbDisk
    /\ dbDisk[ItemKey(i)] = ItemFragment(i)

BeforeCopy == {"hash", "exif", "derive", "check"}

\* ------------------------------------------------- path derivation alone
\* The records get_exif can hand to the derivation: each timestamp absent or
\* one of two instants, an album or none, a make and a model or none.
DeriveExifs ==
    {MkExif(dto, cd, al, mk, md) :
        dto \in {None, Some(DateA), Some(DateB)},
        cd \in {None, Some(DateA), Some(DateB)},
        al \in {None, Some("Trip")},
        mk \in {None, Some("Canon"), Some("Nikon")},
        md \in {None, Some("EOS R5")}}

\* A file two levels below the scanned root.
PathDeep == MkPath(<<"in", "A", "S">>, "d", "jpg")

\* The PhotoPaths find_all_photos can yield: files in the root, one and two
\* levels below it, and a file that was itself given on the command line.
DeriveItems ==
    {[input_path |-> q, input_dir |-> InputDir] :
        q \in {PathRoot, PathSubA, PathSubB, PathDeep}}
    \cup {[input_path |-> PathRoot, input_dir |-> <<"in", FileName(PathRoot)>>]}

\* get_photo of one item right after get_exif returned a record; what is
\* under the output dir plays no part in the derivation.
InitDerive ==
    /\ album_from_filename \in BOOLEAN
    /\ src = [q \in TreeSet |-> ContentA]
    /\ fs = EmptyMap
    /\ dirs = {}
    /\ dbDisk = EmptyMap
    /\ db = EmptyMap
    /\ run = 1
    /\ pc = "derive"
    /\ \E it \in DeriveItems, e \in DeriveExifs :
        /\ items = <<it>>
        /\ photo = [NoPhoto EXCEPT !.input_path = Some(it.input_path),
                                   !.checksum = Some(adler32(ContentA)),
                                   !.exif = Some(e)]
    /\ idx = 1
    /\ results = <<>>
    /\ faults = 0
    /\ outcome = <<"none">>
    /\ prev = <<>>
    /\ ended = "running"
    /\ clean = TRUE

SpecDerive == InitDerive /\ [][Derive]_vars

\* ------------------------------------------------------------------ claims
\* C1. Dedup idempotence: an item whose import succeeded in the run before is
\* still at its destination, and in this run it never gets past the
\* destination check (no mkdir, copy, metadata write or index write); when
\* nothing fails in this run it ends Skipped.
C1_DedupIdempotence ==
    \A i \in DOMAIN prev \cap Items :
        prev[i] = "ok" =>
            /\ HasDest(i) /\ ItemDest(i) \in DOMAIN fs
            /\ (pc # "idle" /\ idx = i) => pc \in BeforeCopy
            /\ outcome[i] \in {"none", "Skipped", "FailedHash", "FailedExif",
                               "Panicked", "Killed"}
            /\ (clean /\ outcome[i] # "none") => outcome[i] = "Skipped"

\* A second run has skipped an item the run before imported, whose copy is at
\* its destination.
C1_Witness ==
    \E i \in DOMAIN prev \cap Items :
        /\ prev[i] = "ok" /\ outcome[i] = "Skipped" /\ ended = "finished"
        /\ fs[ItemDest(i)].content = src[ItemPath(i)]

\* C2. No overwrite: a file at a destination keeps its content in every step
\* (a copy only ever creates a destination), and an item whose destination
\* exists at the destination check is skipped.
C2_NoOverwrite ==
    [][/\ \A p \in DOMAIN fs :
              /\ p \in DOMAIN fs'
              /\ fs'[p].content = fs[p].content
              /\ fs'[p].whole = fs[p].whole
       /\ (pc = "check" /\ OutputPath(photo) \in DOMAIN fs /\ ended' # "killed")
              => (pc' = "hash" /\ outcome'[idx] = "Skipped" /\ fs' = fs)]_vars

\* An item was skipped at a destination that holds another source's content.
C2_Witness ==
    \E i \in Items :
        /\ outcome[i] = "Skipped"
        /\ fs[ItemDest(i)].content # src[ItemPath(i)]
        /\ fs[ItemDest(i)].whole

\* C3. No duplicate content is copied twice: whole copies of the same content
\* are at no more than one destination.
C3_OneCopyPerContent ==
    \A p, q \in DOMAIN fs :
        (fs[p].whole /\ fs[q].whole /\ fs[p].content = fs[q].content) => p = q

\* C4. Per-item failure isolation: a run that was not killed from outside
\* ends having attempted every discovered item, and its result holds exactly
\* the items that did not fail.
C4_EveryItemAttempted ==
    (run > 0 /\ pc = "idle" /\ ended # "killed") =>
        /\ \A i \in Items : outcome[i] # "none"
        /\ Len(results) = Cardinality({i \in Items : outcome[i] \in Succeeded})

\* C5. Metadata-unavailable is a per-item failure: a metadata read that gives
\* no record drops the item, changes nothing on disk, and goes on to the next
\* item.
C5_MetadataUnavailablePerItem ==
    [][(pc = "exif" /\ pc' # "derive" /\ ended' # "killed") =>
           /\ pc' = "hash"
           /\ idx' = idx + 1
           /\ results' = results
           /\ ended' = "running"
           /\ fs' = fs /\ dirs' = dirs /\ dbDisk' = dbDisk]_vars

\* The record embedded in content c has neither date.
NoTimestamp(c) ==
    ~IsSome(ExifOf(c).date_time_original) /\ ~IsSome(ExifOf(c).create_date)

\* C6. Missing timestamp rejection: an item whose record has neither date
\* never gets past path derivation, and nothing of it is on disk or in the
\* index.
C6_MissingTimestamp ==
    /\ \A i \in Items :
          NoTimestamp(src[ItemPath(i)]) =>
              /\ (pc # "idle" /\ idx = i) => pc \in {"hash", "exif", "derive"}
              /\ outcome[i] \in {"none", "FailedHash", "FailedExif", "FailedDerive",
                                 "Panicked", "Killed"}
              /\ (clean /\ outcome[i] # "none") => outcome[i] = "FailedDerive"
              /\ \A j \in 1..Len(results) : results[j].input_path # Some(ItemPath(i))
    /\ \A p \in DOMAIN fs : ~NoTimestamp(fs[p].content)
    /\ \A c \in Contents :
          NoTimestamp(c) => ToString(adler32(c)) \notin DOMAIN db \cup DOMAIN dbDisk
    /\ (\A i \in Items : NoTimestamp(src[ItemPath(i)])) => dirs = {}

\* An item without a timestamp was rejected at path derivation while another
\* item of the run was imported.
C6_Witness ==
    /\ \E i \in Items : outcome[i] = "FailedDerive"
    /\ \E i \in Items : outcome[i] = "Done"

\* C7. A failed item is retried: an item the environment failed in the run
\* before is Done after a run in which nothing fails.
C7_FailedItemRetried ==
    (ended = "finished" /\ clean) =>
        \A i \in DOMAIN prev \cap Items :
            (prev[i] = "failed" /\ HasDest(i) /\ OwnDest(i)) => IsDone(i)

\* C8. Safe restart: after a run was killed, a run in which nothing fails
\* leaves every item the killed run had not completed Done.
C8_SafeRestart ==
    (ended = "finished" /\ clean /\ \E j \in DOMAIN prev : prev[j] = "Killed") =>
        \A i \in DOMAIN prev \cap Items :
            (prev[i] \in {"Killed", "none"} /\ HasDest(i) /\ OwnDest(i)) => IsDone(i)

\* C9. First writer wins: an entry of the index is never removed and never
\* mapped to another path.
C9_FirstWriterWins ==
    [][\A k \in DOMAIN dbDisk : k \in DOMAIN dbDisk' /\ dbDisk'[k] = dbDisk[k]]_vars

\* Every entry of index d names a fragment at which, under the output dir, a
\* whole copied file is.
IndexedFile(d) ==
    \A k \in DOMAIN d :
        /\ (OutputDir \o "/" \o d[k]) \in DOMAIN fs
        /\ fs[OutputDir \o "/" \o d[k]].whole

\* C10. Index implies file: every entry of the index, in the process and on
\* disk, refers to a path under the output dir at which a file has been
\* copied.
C10_IndexImpliesFile == IndexedFile(dbDisk) /\ (pc # "idle" => IndexedFile(db))

\* The index holds an entry while the process is at a later item.
C10_Witness == pc = "copy" /\ DOMAIN db # {} /\ DOMAIN dbDisk # {}

\* Item i is in the list import_photos returns.
Returned(i) ==
    \E j \in DOMAIN results : results[j].input_path = Some(ItemPath(i))

\* C11. No rollback: an item whose write_exif failed after its copy is not in
\* the returned list, and for the rest of the run the whole copy it made is
\* at its destination, as the copy left it.
C11_NoRollback ==
    \A i \in Items :
        outcome[i] = "FailedTag" =>
            /\ ~Returned(i)
            /\ ItemDest(i) \in DOMAIN fs
            /\ fs[ItemDest(i)] = CopyOf(src[ItemPath(i)], TRUE)

\* A run has finished in which write_exif failed for an item.
C11_Witness ==
    /\ ended = "finished" /\ pc = "idle"
    /\ \E i \in Items : outcome[i] = "FailedTag" /\ ItemDest(i) \in DOMAIN fs

\* C12. A skipped item changes nothing: no step an item takes up to and
\* including the destination check changes the files or directories under
\* the output dir, the index in the process or the index on disk, and the
\* check that finds a file at the destination ends the item Skipped.
C12_SkipChangesNothing ==
    [][(pc \in BeforeCopy /\ pc' # "idle") =>
          /\ fs' = fs /\ dirs' = dirs /\ db' = db /\ dbDisk' = dbDisk
          /\ (pc = "check" /\ OutputPath(photo) \in DOMAIN fs) =>
                 (outcome'[idx] = "Skipped" /\ Len(results') = Len(results) + 1)]_vars

\* An item was skipped at a destination that holds its own tagged copy, with
\* its checksum in the index.
C12_Witness ==
    \E i \in Items : outcome[i] = "Skipped" /\ IsDone(i) /\ pc # "idle"

\* C13. Index durability: the step in which write_photohash records the
\* item's checksum leaves it mapped to the item's fragment in the process and
\* on disk; every entry the process holds is still there, with the same
\* path, after every later step of the same process; and the store a new
\* process loads holds every entry that is on disk.
C13_IndexDurability ==
    [][/\ (pc = "index" /\ outcome'[idx] = "Done") =>
             /\ ItemKey(idx) \in DOMAIN db' /\ db'[ItemKey(idx)] = ItemFragment(idx)
             /\ dbDisk' = db'
       /\ (pc # "idle" /\ pc' # "idle") =>
             \A k \in DOMAIN db : k \in DOMAIN db' /\ db'[k] = db[k]
       /\ (pc = "idle" /\ pc' # "idle") =>
             \A k \in DOMAIN dbDisk : k \in DOMAIN db' /\ db'[k] = dbDisk[k]]_vars

\* C14. Album inference: the album of the record path derivation produces
\* is the name of the file's immediate parent directory when the flag is set
\* and the file is one or more levels below the scanned root, whatever album
\* the metadata holds; otherwise it is the album of the metadata. No other
\* field of the record changes.
C14_AlbumInference ==
    [][(pc = "derive" /\ pc' = "check") =>
          LET below == Len(CurPath.dirs) > Len(CurDir)
              read == Unwrap(photo.exif)
          IN /\ Unwrap(photo'.exif).album =
                    IF album_from_filename /\ below
                    THEN Some(CurPath.dirs[Len(CurPath.dirs)])
                    ELSE read.album
             /\ Unwrap(photo'.exif) = [read EXCEPT !.album = Unwrap(photo'.exif).album]]_vars

\* With the flag set, a file two levels below the root got the album of its
\* immediate parent directory, and its destination is under that album.
C14_Witness ==
    /\ pc = "check" /\ album_from_filename /\ CurPath = PathDeep
    /\ Unwrap(photo.exif).album = Some("S")
    /\ photo.output_filename = Some("albums/S/Canon EOS R5/2021-12-25_08-05-09.jpg")

\* C15. Bucket selection: the fragment is albums/<album> when the record has
\* an album, else timeline/<year>-<month number>-<month abbreviation> of the
\* resolved timestamp (date_time_original when present, else create_date),
\* then the camera sub-bucket, then <Y>-<m>-<d>_<H>-<M>-<S>.<ext>; the
\* example of the specification yields
\* timeline/2023-07-Jul/Canon EOS R5/2023-07-04_10-15-30.jpg.
C15_BucketSelection ==
    pc = "check" =>
        LET exif == Unwrap(photo.exif)
            date == IF IsSome(exif.date_time_original)
                    THEN Unwrap(exif.date_time_original)
                    ELSE Unwrap(exif.create_date)
            month == IF date = DateA THEN "2023-07-Jul" ELSE "2021-12-Dec"
            stamp == IF date = DateA THEN "2023-07-04_10-15-30"
                     ELSE "2021-12-25_08-05-09"
            bucket == IF IsSome(exif.album) THEN "albums/" \o Unwrap(exif.album)
                      ELSE "timeline/" \o month
            camera == IF IsSome(exif.make) /\ IsSome(exif.model)
                      THEN Unwrap(exif.make) \o " " \o Unwrap(exif.model)
                      ELSE "unknown camera"
        IN /\ photo.output_filename =
                  Some(bucket \o "/" \o camera \o "/" \o stamp \o "." \o CurPath.ext)
           /\ (/\ exif.date_time_original = Some(DateA) /\ ~IsSome(exif.album)
               /\ exif.make = Some("Canon") /\ exif.model = Some("EOS R5")
               /\ CurPath.ext = "jpg") =>
                  photo.output_filename =
                      Some("timeline/2023-07-Jul/Canon EOS R5/2023-07-04_10-15-30.jpg")

\* The example of the specification, with a create_date that differs from
\* the original date.
C15_Witness ==
    /\ pc = "check"
    /\ Unwrap(photo.exif).date_time_original = Some(DateA)
    /\ Unwrap(photo.exif).create_date = Some(DateB)
    /\ photo.output_filename =
           Some("timeline/2023-07-Jul/Canon EOS R5/2023-07-04_10-15-30.jpg")

\* C16. Camera fallback: the camera sub-bucket of the fragment is
\* "<make> <model>" when the record has both, and "unknown camera" when it
\* lacks the make, the model or both.
C16_CameraFallback ==
    pc = "check" =>
        LET exif == Unwrap(photo.exif)
            both == IsSome(exif.make) /\ IsSome(exif.model)
            named == {"Canon EOS R5", "Nikon EOS R5"}
            Fragments(cameras) ==
                {Some(b \o "/" \o c \o "/" \o t \o "." \o CurPath.ext) :
                    b \in {"albums/Trip", "albums/A", "albums/B", "albums/S",
                           "timeline/2023-07-Jul", "timeline/2021-12-Dec"},
                    c \in cameras,
                    t \in {"2023-07-04_10-15-30", "2021-12-25_08-05-09"}}
        IN /\ both => photo.output_filename \in Fragments(named)
           /\ (both /\ exif.make = Some("Nikon")) =>
                  photo.output_filename \in Fragments({"Nikon EOS R5"})
           /\ ~both => photo.output_filename \in Fragments({"unknown camera"})

\* A record with a make and no model was filed under "unknown camera".
C16_Witness ==
    /\ pc = "check"
    /\ Unwrap(photo.exif).make = Some("Nikon") /\ ~IsSome(Unwrap(photo.exif).model)
    /\ photo.output_filename =
           Some("timeline/2021-12-Dec/unknown camera/2021-12-25_08-05-09.jpeg")

\* The steps of an item, in the order of get_photo and copy_photo.
StepOrder == <<"hash", "exif", "derive", "check", "mkdir", "copy", "tag", "index">>
StepAfter(p) == StepOrder[(CHOOSE k \in 1..7 : StepOrder[k] = p) + 1]

C18_SourceUntouched ==
    [][/\ src' = src
       /\ pc = "copy" =>
             /\ CopyTarget(photo).under = "output"
             /\ CopyTarget(photo).path = ItemDest(idx)
       /\ pc = "tag" =>
             /\ TagTarget(photo).under = "output"
             /\ TagTarget(photo).path = ItemDest(idx)
       /\ \A q \in DOMAIN fs' :
             (q \notin DOMAIN fs \/ fs'[q] # fs[q]) => q = ItemDest(idx)]_vars

\* An imported item's copy carries the written-back tags, with an album that
\* the source file does not hold.
C18_Witness ==
    \E i \in Items :
        /\ outcome[i] = "Done"
        /\ fs[ItemDest(i)].original_filename = Some(FileName(ItemPath(i)))
        /\ fs[ItemDest(i)].album # ExifOf(src[ItemPath(i)]).album

\* C19. Result set: while a run goes on and when it has finished, the list
\* import_photos builds holds exactly the items that ended Done or Skipped,
\* each with a file at output dir + output filename; an item whose copy
\* succeeded and whose metadata write or index write failed is not in the
\* list although a file is at its destination.
C19_ResultSet ==
    /\ ended \in {"running", "finished"} =>
           \A i \in Items : Returned(i) <=> outcome[i] \in Succeeded
    /\ \A j \in DOMAIN results :
           /\ OutputPath(results[j]) \in DOMAIN fs
           /\ \E i \in Items : /\ results[j].input_path = Some(ItemPath(i))
                                /\ OutputPath(results[j]) = ItemDest(i)
    /\ \A i \in Items :
           outcome[i] \in {"FailedTag", "FailedIndex"} =>
               ~Returned(i) /\ ItemDest(i) \in DOMAIN fs /\ fs[ItemDest(i)].whole

\* A run has finished and returned a list, and an item whose index write
\* failed is not in it while its copy is at its destination.
C19_Witness ==
    /\ ended = "finished" /\ pc = "idle" /\ Len(results) > 0
    /\ \E i \in Items :
           outcome[i] = "FailedIndex" /\ ~Returned(i) /\ ItemDest(i) \in DOMAIN fs

====
